---- MODULE Spec2Model ----
(***************************************************************************)
(* Model of packages/react/tabs/src/Tabs.tsx: the Tabs root, its triggers  *)
(* and its content panels.  One Tabs instance (Spec) or two instances side *)
(* by side (SpecPair) are mounted.                                         *)
(* Strings are sequences of one-character strings, so that the identifier  *)
(* templates of makeTriggerId / makeContentId are real concatenations.     *)
(* Every action is one event handler run to completion, including the      *)
(* re-render React performs before the next event is dispatched: the       *)
(* variable view holds the attributes of the last render, and the handlers *)
(* read isSelected from it, as the closures of TabsTrigger do.             *)
(***************************************************************************)
EXTENDS Integers, Sequences, FiniteSets, TLC

VARIABLES
    mounted,         \* the Tabs instances on the page
    baseId,          \* per instance: the string useId() returned at mount
    valueProp,       \* per instance: props.value (Undefined when not supplied)
    mountedControlled, \* per instance: whether props.value was supplied at the first render
    defaultValue,    \* per instance: props.defaultValue
    uncontrolled,    \* per instance: the internal cell of useControllableState
    activationMode,  \* per instance: props.activationMode
    disabled,        \* per instance: the values whose TabsTrigger has disabled = true
    contents,        \* per instance: the values that have a mounted TabsContent
    callerHandlers,  \* per instance: whether its triggers were given onKeyDown,
                     \* onMouseDown and onFocus props of their own
    view,            \* per instance: the attributes produced by the last render
    outside,         \* the outcome of rendering a unit outside every Tabs in the last step
    lastEvent,       \* the event handled by the last step
    notified         \* the arguments props.onValueChange received in the last step

vars == << mounted, baseId, valueProp, mountedControlled, defaultValue, uncontrolled, activationMode,
           disabled, contents, callerHandlers, view, outside, lastEvent, notified >>

props == << mounted, baseId, mountedControlled, defaultValue, activationMode, disabled, contents,
           callerHandlers >>

(***************************************************************************)
(* Bounds and input sets.                                                  *)
(***************************************************************************)
NumValues == 3

MaxButton == 1

Inst == {1, 2}

ValuePool == << <<"a">>, <<"b">>, <<"t", "a", "b", "1">>, <<"c">> >>

ValueAt(k) == IF k <= Len(ValuePool) THEN ValuePool[k] ELSE [j \in 1..k |-> "z"]

Values == {ValueAt(k) : k \in 1..NumValues}

\* JavaScript's undefined: no string, since every string is made of one-character tokens.
Undefined == << "undefined" >>

OptValues == Values \cup {Undefined}

BaseIds == { <<"x", "1">>, <<"x", "2">> }

Keys == {" ", "Enter", "ArrowRight"}

Buttons == 0..MaxButton

NoKey == "none"

(***************************************************************************)
(* Identifier templates.                                                   *)
(***************************************************************************)
TriggerInfix == << "-", "t", "r", "i", "g", "g", "e", "r", "-" >>

ContentInfix == << "-", "c", "o", "n", "t", "e", "n", "t", "-" >>

makeTriggerId_Swapped(base, value) == base \o ContentInfix \o value

makeTriggerId(base, value) == base \o TriggerInfix \o value

makeContentId_NoBase(base, value) == ContentInfix \o value

makeContentId(base, value) == base \o ContentInfix \o value

(***************************************************************************)
(* Tabs: the resolved selection and the context it provides.               *)
(***************************************************************************)
\* useControllableState: the value it returns for a prop and an internal cell.
useControllableState(prop, cell) == IF prop # Undefined THEN prop ELSE cell

TabsContext_Unscoped(i, ids, vprops, cells, modes) ==
    [baseId |-> ids[i],
     value |-> useControllableState(vprops[1], cells[1]),
     activationMode |-> modes[i]]

TabsContext_IgnoresValueProp(i, ids, vprops, cells, modes) ==
    [baseId |-> ids[i],
     value |-> cells[i],
     activationMode |-> modes[i]]

\* The context value of instance i (TabsProvider's props).
TabsContext(i, ids, vprops, cells, modes) ==
    [baseId |-> ids[i],
     value |-> useControllableState(vprops[i], cells[i]),
     activationMode |-> modes[i]]

(***************************************************************************)
(* TabsTrigger and TabsContent: what one render produces.                  *)
(***************************************************************************)
IsSelected_Any(value, context) == context.value # Undefined

\* isSelected of a TabsTrigger.
TriggerIsSelected(value, context) == value = context.value

\* isSelected of a TabsContent.
ContentIsSelected(value, context) == value = context.value

TabsTrigger(context, value, isDisabled) ==
    LET isSelected == TriggerIsSelected(value, context)
    IN [id |-> makeTriggerId(context.baseId, value),
        ariaControls |-> makeContentId(context.baseId, value),
        ariaSelected |-> isSelected,
        ariaDisabled |-> isDisabled,
        dataState |-> IF isSelected THEN "active" ELSE "inactive",
        focusable |-> ~isDisabled,
        active |-> isSelected,
        isSelected |-> isSelected]

TabsContent_ChildrenAlways(context, value) ==
    LET isSelected == ContentIsSelected(value, context)
    IN [id |-> makeContentId(context.baseId, value),
        ariaLabelledby |-> makeTriggerId(context.baseId, value),
        dataState |-> IF isSelected THEN "active" ELSE "inactive",
        hidden |-> ~isSelected,
        children |-> TRUE,
        isSelected |-> isSelected]

TabsContent(context, value) ==
    LET isSelected == ContentIsSelected(value, context)
    IN [id |-> makeContentId(context.baseId, value),
        ariaLabelledby |-> makeTriggerId(context.baseId, value),
        dataState |-> IF isSelected THEN "active" ELSE "inactive",
        hidden |-> ~isSelected,
        children |-> isSelected,
        isSelected |-> isSelected]

TabsList(context) == [role |-> "tablist"]

(***************************************************************************)
(* The context lookup every unit starts its render with.                   *)
(***************************************************************************)
TABS_NAME == "Tabs"

TAB_LIST_NAME == "TabsList"

TRIGGER_NAME == "TabsTrigger"

CONTENT_NAME == "TabsContent"

Units == {"list", "trigger", "content"}

\* What a render finds when no Tabs encloses the unit.
NoContext == [provider |-> "none"]

ConsumerName_AlwaysTrigger(unit) == TRIGGER_NAME

\* The name each unit passes to useTabsContext.
ConsumerName(unit) ==
    CASE unit = "list" -> TAB_LIST_NAME
      [] unit = "trigger" -> TRIGGER_NAME
      [] unit = "content" -> CONTENT_NAME

\* useTabsContext(consumerName, scope): the context of the enclosing Tabs, or the
\* error thrown when there is none.
useTabsContext(consumerName, scope) ==
    IF scope = NoContext
    THEN [error |-> "must be used within", consumer |-> consumerName,
          provider |-> TABS_NAME]
    ELSE scope

Thrown(result) == "error" \in DOMAIN result

\* The render of one unit under the context scope: the error of useTabsContext
\* ends it before any markup is produced.
RenderUnit(unit, scope, value, isDisabled) ==
    LET context == useTabsContext(ConsumerName(unit), scope)
    IN IF Thrown(context)
       THEN context
       ELSE CASE unit = "list" -> TabsList(context)
              [] unit = "trigger" -> TabsTrigger(context, value, isDisabled)
              [] unit = "content" -> TabsContent(context, value)

\* One render pass of instance i: the list, every trigger and every mounted content.
Render(i, ids, vprops, cells, modes, dis, conts) ==
    LET provided == TabsContext(i, ids, vprops, cells, modes)
    IN [value |-> provided.value,
        list |-> RenderUnit("list", provided, Undefined, FALSE),
        triggers |-> [v \in Values |-> RenderUnit("trigger", provided, v, v \in dis[i])],
        contents |-> [v \in conts[i] |-> RenderUnit("content", provided, v, FALSE)]]

RenderAll(ids, vprops, cells, modes, dis, conts) ==
    [i \in DOMAIN ids |-> Render(i, ids, vprops, cells, modes, dis, conts)]

\* The selection value the triggers and contents of instance i read.
Selection(i) == TabsContext(i, baseId, valueProp, uncontrolled, activationMode).value

(***************************************************************************)
(* Initial states: the instances mounted and rendered once.                *)
(***************************************************************************)
DefaultChoices == {Undefined, ValueAt(1)}

DisabledChoices == {{}, {ValueAt(2)}}

ContentChoices == {Values, Values \ {ValueAt(1)}}

NoRender == [unit |-> "none"]

MountEvent ==
    [kind |-> "mount", inst |-> 0, value |-> Undefined, key |-> NoKey, button |-> 0,
     ctrlKey |-> FALSE, defaultPrevented |-> FALSE, before |-> Undefined,
     requested |-> FALSE, handlers |-> << >>]

\* The state after the instances of the set m are mounted and rendered once.
Mount(m) ==
    /\ mounted = m
    /\ baseId \in {f \in [m -> BaseIds] : \A i, j \in m : i # j => f[i] # f[j]}
    /\ valueProp \in [m -> OptValues]
    /\ mountedControlled = [i \in m |-> valueProp[i] # Undefined]
    /\ defaultValue \in [m -> DefaultChoices]
    /\ \A i \in m : valueProp[i] # Undefined => defaultValue[i] = Undefined
    /\ uncontrolled = defaultValue
    /\ view = RenderAll(baseId, valueProp, uncontrolled, activationMode, disabled, contents)
    /\ outside = NoRender
    /\ lastEvent = MountEvent
    /\ notified = << >>

\* One instance, with every combination of its props.
Init ==
    /\ activationMode \in [{1} -> {"automatic", "manual"}]
    /\ disabled \in [{1} -> DisabledChoices]
    /\ contents \in [{1} -> ContentChoices]
    /\ callerHandlers = [i \in {1} |-> TRUE]
    /\ Mount({1})

\* Two instances with the same value keys, an enabled trigger and a content each.
InitPair ==
    /\ activationMode \in [Inst -> {"automatic"}]
    /\ disabled = [i \in Inst |-> {}]
    /\ contents = [i \in Inst |-> Values]
    /\ callerHandlers = [i \in Inst |-> FALSE]
    /\ Mount(Inst)
    /\ valueProp[1] = Undefined

(***************************************************************************)
(* The internal handlers of TabsTrigger: TRUE when they call               *)
(* handleTabChange.                                                        *)
(***************************************************************************)
onKeyDown_EnterOnly(isDisabled, event) == ~isDisabled /\ event.key = "Enter"

onKeyDown_IgnoresDisabled(isDisabled, event) == event.key = " " \/ event.key = "Enter"

onKeyDown(isDisabled, event) ==
    ~isDisabled /\ (event.key = " " \/ event.key = "Enter")

onMouseDown_AnyButton(isDisabled, event) == ~isDisabled

onMouseDown_IgnoresDisabled(isDisabled, event) ==
    event.button = 0 /\ event.ctrlKey = FALSE

onMouseDown(isDisabled, event) ==
    ~isDisabled /\ event.button = 0 /\ event.ctrlKey = FALSE

onFocus_AlwaysAutomatic(isSelected, isDisabled, context) == ~isSelected /\ ~isDisabled

onFocus_IgnoresSelected(isSelected, isDisabled, context) ==
    ~isDisabled /\ context.activationMode # "manual"

onFocus_Inverted(isSelected, isDisabled, context) ==
    ~isSelected /\ ~isDisabled /\ context.activationMode = "manual"

onFocus(isSelected, isDisabled, context) ==
    LET isAutomaticActivation == context.activationMode # "manual"
    IN ~isSelected /\ ~isDisabled /\ isAutomaticActivation

\* composeEventHandlers(original, ours): ours runs after the caller's handler
\* unless that handler marked the event as handled.
composeEventHandlers(defaultPrevented, ours) == ~defaultPrevented /\ ours

\* The handlers composeEventHandlers runs for one event, in the order it runs them.
HandlersRun(hasCaller, defaultPrevented) ==
    (IF hasCaller THEN << "caller" >> ELSE << >>)
        \o (IF defaultPrevented THEN << >> ELSE << "internal" >>)

(***************************************************************************)
(* State changes.                                                          *)
(***************************************************************************)
\* The setter of useControllableState, called by handleTabChange with the
\* trigger's value (context.onValueChange = setValue).
setValue(i, v) ==
    /\ uncontrolled' = IF valueProp[i] # Undefined
                       THEN uncontrolled
                       ELSE [uncontrolled EXCEPT ![i] = v]
    /\ notified' = << v >>

handleTabChange_CurrentValue(i, v) == setValue(i, Selection(i))

\* handleTabChange of the trigger v of instance i.
handleTabChange(i, v) == setValue(i, v)

\* One event on the trigger v of instance i, handled to completion.
Dispatch(i, v, event, fires) ==
    /\ IF fires
       THEN handleTabChange(i, v)
       ELSE /\ uncontrolled' = uncontrolled
            /\ notified' = << >>
    /\ lastEvent' = [event EXCEPT
                        !.before = Selection(i),
                        !.requested = fires,
                        !.handlers = HandlersRun(callerHandlers[i], event.defaultPrevented)]
    /\ UNCHANGED << valueProp, props >>
    /\ outside' = NoRender
    /\ view' = RenderAll(baseId', valueProp', uncontrolled', activationMode',
                         disabled', contents')

Event(kind, i, v, key, button, ctrlKey, prevented) ==
    [kind |-> kind, inst |-> i, value |-> v, key |-> key, button |-> button,
     ctrlKey |-> ctrlKey, defaultPrevented |-> prevented, before |-> Undefined,
     requested |-> FALSE, handlers |-> << >>]

KeyDown_NotComposed(i, v, key, prevented) ==
    LET event == Event("keydown", i, v, key, 0, FALSE, prevented)
    IN Dispatch(i, v, event, onKeyDown(v \in disabled[i], event))

KeyDown(i, v, key, prevented) ==
    LET event == Event("keydown", i, v, key, 0, FALSE, prevented)
    IN Dispatch(i, v, event,
                composeEventHandlers(prevented, onKeyDown(v \in disabled[i], event)))

MouseDown(i, v, button, ctrlKey, prevented) ==
    LET event == Event("mousedown", i, v, NoKey, button, ctrlKey, prevented)
    IN Dispatch(i, v, event,
                composeEventHandlers(prevented, onMouseDown(v \in disabled[i], event)))

Focus_StaleIsSelected(i, v, prevented) ==
    LET event == Event("focus", i, v, NoKey, 0, FALSE, prevented)
        context == TabsContext(i, baseId, valueProp, uncontrolled, activationMode)
    IN Dispatch(i, v, event,
                composeEventHandlers(prevented,
                    onFocus(~mountedControlled[i] /\ v = defaultValue[i],
                            v \in disabled[i], context)))

Focus(i, v, prevented) ==
    LET event == Event("focus", i, v, NoKey, 0, FALSE, prevented)
        context == TabsContext(i, baseId, valueProp, uncontrolled, activationMode)
    IN Dispatch(i, v, event,
                composeEventHandlers(prevented,
                    onFocus(view[i].triggers[v].isSelected, v \in disabled[i], context)))

\* The owner of a controlled instance renders it with a new external value.
OwnerRender(i, v) ==
    /\ valueProp[i] # Undefined
    /\ valueProp' = [valueProp EXCEPT ![i] = v]
    /\ lastEvent' = [Event("render", i, v, NoKey, 0, FALSE, FALSE)
                        EXCEPT !.before = Selection(i)]
    /\ notified' = << >>
    /\ UNCHANGED << uncontrolled, props >>
    /\ outside' = NoRender
    /\ view' = RenderAll(baseId', valueProp', uncontrolled', activationMode',
                         disabled', contents')

\* The owner renders the instance and starts (p a value) or stops (p Undefined)
\* supplying props.value: the use spec section 3 calls unsupported.
OwnerSwitch(i, p) ==
    /\ (valueProp[i] = Undefined) # (p = Undefined)
    /\ valueProp' = [valueProp EXCEPT ![i] = p]
    /\ lastEvent' = [Event("switch", i, p, NoKey, 0, FALSE, FALSE)
                        EXCEPT !.before = Selection(i)]
    /\ notified' = << >>
    /\ UNCHANGED << uncontrolled, props >>
    /\ outside' = NoRender
    /\ view' = RenderAll(baseId', valueProp', uncontrolled', activationMode',
                         disabled', contents')

\* A unit is rendered with no enclosing Tabs.
RenderOutside(unit) ==
    /\ outside' = [unit |-> unit,
                   result |-> RenderUnit(unit, NoContext, ValueAt(1), FALSE)]
    /\ lastEvent' = Event("outside", 0, Undefined, NoKey, 0, FALSE, FALSE)
    /\ notified' = << >>
    /\ UNCHANGED << valueProp, uncontrolled, props, view >>

\* What a caller-supplied handler can do to event.defaultPrevented: only a
\* trigger that was given a handler can have the event marked as handled.
Prevented(i) == IF callerHandlers[i] THEN BOOLEAN ELSE {FALSE}

Next ==
    \/ \E i \in mounted, v \in Values, key \in Keys :
         \E prevented \in Prevented(i) : KeyDown(i, v, key, prevented)
    \/ \E i \in mounted, v \in Values, button \in Buttons, ctrlKey \in BOOLEAN :
         \E prevented \in Prevented(i) : MouseDown(i, v, button, ctrlKey, prevented)
    \/ \E i \in mounted, v \in Values :
         \E prevented \in Prevented(i) : Focus(i, v, prevented)
    \/ \E i \in mounted, v \in Values : OwnerRender(i, v)
    \/ \E unit \in Units : RenderOutside(unit)

Spec == Init /\ [][Next]_vars

SpecPair == InitPair /\ [][Next]_vars

\* One instance whose owner may also start or stop supplying props.value.
InitSwitch ==
    /\ activationMode \in [{1} -> {"automatic"}]
    /\ disabled = [i \in {1} |-> {}]
    /\ contents = [i \in {1} |-> Values]
    /\ callerHandlers = [i \in {1} |-> FALSE]
    /\ Mount({1})

NextSwitch ==
    \/ Next
    \/ \E i \in mounted, p \in OptValues : OwnerSwitch(i, p)

SpecSwitch == InitSwitch /\ [][NextSwitch]_vars

(***************************************************************************)
(* Vocabulary of the properties.                                           *)
(***************************************************************************)
TriggerKinds == {"keydown", "mousedown", "focus"}

\* The last step was an event on a trigger.
OnTrigger == lastEvent.kind \in TriggerKinds

\* The instance, the trigger value and the selection before the last event.
At == lastEvent.inst

V == lastEvent.value

Before == lastEvent.before

Controlled(i) == valueProp[i] # Undefined

Enabled == V \notin disabled[At]

ActivationKey == lastEvent.key = " " \/ lastEvent.key = "Enter"

PrimaryUnmodified == lastEvent.button = 0 /\ ~lastEvent.ctrlKey

\* The last render of instance i shows val, and nothing else, as active.
Shows(i, val) ==
    /\ view[i].value = val
    /\ \A v \in Values :
         /\ view[i].triggers[v].isSelected = (v = val)
         /\ view[i].triggers[v].ariaSelected = (v = val)
         /\ view[i].triggers[v].dataState = IF v = val THEN "active" ELSE "inactive"
    /\ DOMAIN view[i].contents = contents[i]
    /\ \A v \in contents[i] :
         /\ view[i].contents[v].isSelected = (v = val)
         /\ view[i].contents[v].dataState = IF v = val THEN "active" ELSE "inactive"

SelectedPanels(i) == {v \in DOMAIN view[i].contents : view[i].contents[v].isSelected}

(***************************************************************************)
(* C1. Selection exclusivity: in every state at most one mounted content   *)
(* panel of an instance is selected, the selected panel is the one whose   *)
(* value is the current selection, and with no selection no panel is       *)
(* selected.                                                               *)
(***************************************************************************)
C1_SelectionExclusivity ==
    \A i \in mounted :
        /\ Cardinality(SelectedPanels(i)) <= 1
        /\ SelectedPanels(i) = {v \in contents[i] : v = Selection(i)}
        /\ Selection(i) = Undefined => SelectedPanels(i) = {}

C1_Witness ==
    /\ OnTrigger /\ lastEvent.requested
    /\ Before \in Values /\ Before # V
    /\ {V, Before} \subseteq contents[At]
    /\ SelectedPanels(At) = {V}

(***************************************************************************)
(* C2. Controlled pass-through: with an external value, an event on a      *)
(* trigger leaves the selection every trigger and content reads equal to   *)
(* the external value; it at most calls the owner's callback with the      *)
(* trigger's value.  What is shown changes when the owner renders the      *)
(* instance with a new value.                                              *)
(***************************************************************************)
C2_ControlledPassThrough ==
    /\ OnTrigger /\ Controlled(At) =>
         /\ valueProp[At] = Before
         /\ Selection(At) = Before
         /\ Shows(At, Before)
         /\ notified = IF lastEvent.requested THEN << V >> ELSE << >>
    /\ lastEvent.kind = "render" =>
         /\ valueProp[At] = V
         /\ Shows(At, V)

C2_Witness ==
    /\ lastEvent.kind = "mousedown" /\ Controlled(At)
    /\ Enabled /\ PrimaryUnmodified /\ ~lastEvent.defaultPrevented
    /\ V # Before
    /\ notified = << V >>
    /\ Shows(At, Before)

(***************************************************************************)
(* C3. Uncontrolled transition: without an external value, a change        *)
(* request for V by a trigger makes V the selection; in the state after    *)
(* the step the trigger and the content of V are active and those of the   *)
(* previous value are inactive.  Every state shows exactly its selection,  *)
(* so no state has both or neither of the two active.                      *)
(***************************************************************************)
C3_UncontrolledTransition ==
    /\ \A i \in mounted : Shows(i, Selection(i))
    /\ OnTrigger /\ ~Controlled(At) /\ lastEvent.requested =>
         /\ Selection(At) = V
         /\ uncontrolled[At] = V
         /\ view[At].triggers[V].dataState = "active"
         /\ V \in contents[At] => view[At].contents[V].dataState = "active"
         /\ Before \in Values /\ Before # V =>
              /\ view[At].triggers[Before].dataState = "inactive"
              /\ Before \in contents[At] =>
                   view[At].contents[Before].dataState = "inactive"

C3_Witness ==
    /\ OnTrigger /\ ~Controlled(At) /\ lastEvent.requested
    /\ Before \in Values /\ Before # V
    /\ {V, Before} \subseteq contents[At]
    /\ view[At].contents[V].dataState = "active"
    /\ view[At].contents[Before].dataState = "inactive"

(***************************************************************************)
(* C4. Change notification: in both ownership modes, an event that passes  *)
(* the guard of its path (and was not marked as handled by a handler of    *)
(* the caller) calls the owner's callback once, with the trigger's value;  *)
(* in uncontrolled mode the internal cell holds that value as well.        *)
(***************************************************************************)
GuardPasses ==
    /\ Enabled
    /\ ~lastEvent.defaultPrevented
    /\ \/ lastEvent.kind = "keydown" /\ ActivationKey
       \/ lastEvent.kind = "mousedown" /\ PrimaryUnmodified
       \/ lastEvent.kind = "focus" /\ Before # V /\ activationMode[At] # "manual"

C4_ChangeNotification ==
    OnTrigger /\ GuardPasses =>
        /\ notified = << V >>
        /\ ~Controlled(At) => uncontrolled[At] = V

C4_Witness ==
    /\ lastEvent.kind = "keydown" /\ lastEvent.key = " "
    /\ GuardPasses
    /\ ~Controlled(At)
    /\ Before # V
    /\ notified = << V >>
    /\ uncontrolled[At] = V

(***************************************************************************)
(* C5. Automatic activation: in uncontrolled mode with activationMode      *)
(* automatic, a focus event (not marked as handled by a handler of the     *)
(* caller) on an enabled trigger whose value is not the selection makes    *)
(* that value the selection.                                               *)
(***************************************************************************)
AutomaticFocus ==
    /\ lastEvent.kind = "focus"
    /\ activationMode[At] = "automatic"
    /\ ~Controlled(At)
    /\ Enabled
    /\ Before # V
    /\ ~lastEvent.defaultPrevented

C5_AutomaticActivation ==
    AutomaticFocus => Selection(At) = V /\ Shows(At, V)

C5_Witness == AutomaticFocus /\ Before \in Values /\ Selection(At) = V

(***************************************************************************)
(* C6. Manual activation: with activationMode manual a focus event changes *)
(* neither the selection nor calls the callback; an event on a trigger     *)
(* changes the selection only if it is a key-down of Space or Enter or a   *)
(* primary mouse-down without the control key, on an enabled trigger; a    *)
(* key-down of another key leaves the selection unchanged.                 *)
(***************************************************************************)
C6_ManualActivation ==
    OnTrigger /\ activationMode[At] = "manual" =>
        /\ lastEvent.kind = "focus" =>
             Selection(At) = Before /\ Shows(At, Before) /\ notified = << >>
        /\ Selection(At) # Before =>
             /\ Enabled
             /\ \/ lastEvent.kind = "keydown" /\ ActivationKey
                \/ lastEvent.kind = "mousedown" /\ PrimaryUnmodified
        /\ lastEvent.kind = "keydown" /\ ~ActivationKey =>
             Selection(At) = Before /\ notified = << >>

C6_Witness ==
    /\ lastEvent.kind = "focus" /\ activationMode[At] = "manual"
    /\ ~Controlled(At) /\ Enabled /\ ~lastEvent.defaultPrevented
    /\ Before # V
    /\ Selection(At) = Before
    /\ notified = << >>

(***************************************************************************)
(* C7. Disabled exclusion: an event of any of the three paths on a         *)
(* disabled trigger neither changes the selection nor calls the callback,  *)
(* in both activation modes and both ownership modes.                      *)
(***************************************************************************)
C7_DisabledExclusion ==
    OnTrigger /\ ~Enabled =>
        /\ Selection(At) = Before
        /\ Shows(At, Before)
        /\ notified = << >>
        /\ ~lastEvent.requested

C7_Witness ==
    /\ lastEvent.kind = "keydown" /\ lastEvent.key = "Enter"
    /\ ~Enabled /\ ~lastEvent.defaultPrevented
    /\ ~Controlled(At)
    /\ Before # V
    /\ Selection(At) = Before
    /\ notified = << >>

(***************************************************************************)
(* C8. Secondary-click exclusion: a mouse-down on an enabled trigger with  *)
(* a button other than the primary one, or with the control key held,      *)
(* does not call the callback and leaves the selection unchanged.          *)
(***************************************************************************)
C8_SecondaryClickExclusion ==
    lastEvent.kind = "mousedown" /\ Enabled /\ ~PrimaryUnmodified =>
        /\ notified = << >>
        /\ Selection(At) = Before
        /\ Shows(At, Before)

C8_Witness ==
    /\ lastEvent.kind = "mousedown" /\ Enabled
    /\ lastEvent.button # 0 /\ ~lastEvent.ctrlKey /\ ~lastEvent.defaultPrevented
    /\ ~Controlled(At)
    /\ Before # V
    /\ notified = << >>
    /\ Selection(At) = Before

(***************************************************************************)
(* C9. Identifiers: in every render the id of a trigger is its instance's  *)
(* baseId, "-trigger-" and its value, the id of a content is the baseId,   *)
(* "-content-" and its value; aria-labelledby of a content is the id of    *)
(* the trigger of the same value and aria-controls of a trigger is the id  *)
(* of the content of the same value.  For baseId "x1" and value "tab1" the *)
(* ids are "x1-trigger-tab1" and "x1-content-tab1".                        *)
(***************************************************************************)
ExampleBaseId == << "x", "1" >>

ExampleValue == << "t", "a", "b", "1" >>

ExampleTriggerId ==
    << "x", "1", "-", "t", "r", "i", "g", "g", "e", "r", "-", "t", "a", "b", "1" >>

ExampleContentId ==
    << "x", "1", "-", "c", "o", "n", "t", "e", "n", "t", "-", "t", "a", "b", "1" >>

C9_Identifiers ==
    \A i \in mounted :
        /\ \A v \in Values :
             /\ view[i].triggers[v].id = baseId[i] \o TriggerInfix \o v
             /\ view[i].triggers[v].ariaControls = baseId[i] \o ContentInfix \o v
        /\ \A v \in contents[i] :
             /\ view[i].contents[v].id = baseId[i] \o ContentInfix \o v
             /\ view[i].contents[v].ariaLabelledby = view[i].triggers[v].id
             /\ view[i].triggers[v].ariaControls = view[i].contents[v].id
        /\ baseId[i] = ExampleBaseId /\ ExampleValue \in contents[i] =>
             /\ view[i].triggers[ExampleValue].id = ExampleTriggerId
             /\ view[i].contents[ExampleValue].id = ExampleContentId
             /\ view[i].contents[ExampleValue].ariaLabelledby = ExampleTriggerId

C9_Witness ==
    /\ OnTrigger /\ lastEvent.requested /\ Before # V
    /\ baseId[At] = ExampleBaseId
    /\ V = ExampleValue /\ V \in contents[At]
    /\ view[At].triggers[V].id = ExampleTriggerId
    /\ view[At].contents[V].ariaLabelledby = ExampleTriggerId

(***************************************************************************)
(* C10. Scoping isolation: an event on a trigger of one instance leaves    *)
(* the selection of every other instance, and everything the other         *)
(* instance rendered, unchanged, although the instances use the same       *)
(* values.                                                                 *)
(***************************************************************************)
C10_ScopingIsolation ==
    [][\A j \in mounted :
         lastEvent'.kind \in TriggerKinds /\ lastEvent'.inst # j =>
             /\ Selection(j)' = Selection(j)
             /\ view'[j] = view[j]
             /\ uncontrolled'[j] = uncontrolled[j]]_vars

C10_Witness ==
    /\ mounted = Inst
    /\ OnTrigger /\ lastEvent.requested
    /\ Before # V
    /\ Selection(At) = V
    /\ \E j \in mounted :
         /\ j # At
         /\ Selection(j) \in Values /\ Selection(j) # V
         /\ view[j].triggers[V].dataState = "inactive"
         /\ view[At].triggers[V].dataState = "active"

(***************************************************************************)
(* C11. Panel rendering: in every state each mounted TabsContent is        *)
(* rendered; the one whose value is the selection is not hidden and        *)
(* renders its children, every other one is hidden and renders no          *)
(* children.  With defaultValue "a", no external value and a content for   *)
(* every value, the first render shows the children of "a" only.           *)
(***************************************************************************)
DefaultExample(i) ==
    /\ lastEvent.kind = "mount"
    /\ ~Controlled(i)
    /\ defaultValue[i] = ValueAt(1)
    /\ contents[i] = Values

C11_PanelRendering ==
    \A i \in mounted :
        /\ DOMAIN view[i].contents = contents[i]
        /\ \A v \in contents[i] :
             IF v = Selection(i)
             THEN ~view[i].contents[v].hidden /\ view[i].contents[v].children
             ELSE view[i].contents[v].hidden /\ ~view[i].contents[v].children
        /\ DefaultExample(i) =>
             {v \in contents[i] : view[i].contents[v].children} = {ValueAt(1)}

C11_Witness ==
    \E i \in mounted :
        /\ DefaultExample(i)
        /\ Cardinality(contents[i]) >= 3
        /\ view[i].contents[ValueAt(1)].children
        /\ \A v \in contents[i] \ {ValueAt(1)} :
             view[i].contents[v].hidden /\ ~view[i].contents[v].children

(***************************************************************************)
(* C12. Context misuse: a TabsList, TabsTrigger or TabsContent rendered    *)
(* with no enclosing Tabs ends in the error that names that unit and the   *)
(* Tabs it needs, and produces no markup; the units rendered inside a Tabs *)
(* never end in that error.                                                *)
(***************************************************************************)
DisplayName(unit) ==
    IF unit = "list" THEN "TabsList"
    ELSE IF unit = "trigger" THEN "TabsTrigger" ELSE "TabsContent"

C12_ContextMisuse ==
    /\ outside # NoRender =>
         /\ Thrown(outside.result)
         /\ outside.result.consumer = DisplayName(outside.unit)
         /\ outside.result.provider = "Tabs"
         /\ DOMAIN outside.result = {"error", "consumer", "provider"}
    /\ \A i \in mounted :
         /\ ~Thrown(view[i].list) /\ view[i].list.role = "tablist"
         /\ \A v \in Values : ~Thrown(view[i].triggers[v])
         /\ \A v \in contents[i] : ~Thrown(view[i].contents[v])

C12_Witness ==
    /\ outside # NoRender
    /\ outside.unit = "content"
    /\ Thrown(outside.result)
    /\ outside.result.consumer = "TabsContent"

(***************************************************************************)
(* C13. Handler composition: on a key-down, mouse-down or focus of a       *)
(* trigger the handler of the caller, if there is one, runs first and the  *)
(* internal handler runs after it unless the caller's handler marked the   *)
(* event as handled.  A caller's handler that marks the event as handled   *)
(* prevents the selection change; one that does not leaves the outcome to  *)
(* the guard of the internal handler.                                      *)
(***************************************************************************)
InternalGuard ==
    /\ Enabled
    /\ \/ lastEvent.kind = "keydown" /\ ActivationKey
       \/ lastEvent.kind = "mousedown" /\ PrimaryUnmodified
       \/ lastEvent.kind = "focus" /\ Before # V /\ activationMode[At] # "manual"

C13_HandlerComposition ==
    OnTrigger =>
        LET ran == lastEvent.handlers
        IN /\ callerHandlers[At] => Len(ran) >= 1 /\ ran[1] = "caller"
           /\ \A k \in 1..Len(ran) : ran[k] = "internal" => k = Len(ran)
           /\ (\E k \in 1..Len(ran) : ran[k] = "internal") <=> ~lastEvent.defaultPrevented
           /\ lastEvent.defaultPrevented =>
                /\ ~lastEvent.requested
                /\ notified = << >>
                /\ Selection(At) = Before
           /\ ~lastEvent.defaultPrevented => (lastEvent.requested <=> InternalGuard)

C13_Witness ==
    /\ lastEvent.kind = "keydown" /\ lastEvent.key = "Enter"
    /\ callerHandlers[At] /\ lastEvent.defaultPrevented
    /\ lastEvent.handlers = << "caller" >>
    /\ Enabled /\ ~Controlled(At)
    /\ Before # V
    /\ Selection(At) = Before

Orphaned == V \notin contents[At]

C15_OrphanedTrigger ==
    OnTrigger /\ Orphaned =>
        /\ GuardPasses => lastEvent.requested
        /\ lastEvent.requested /\ ~Controlled(At) =>
             /\ Selection(At) = V
             /\ view[At].triggers[V].dataState = "active"
             /\ ~Thrown(view[At].triggers[V])
             /\ \A c \in contents[At] :
                  /\ ~Thrown(view[At].contents[c])
                  /\ view[At].contents[c].hidden
                  /\ ~view[At].contents[c].children
             /\ outside = NoRender

C15_Witness ==
    /\ lastEvent.kind = "mousedown" /\ Orphaned
    /\ GuardPasses /\ lastEvent.requested /\ ~Controlled(At)
    /\ Before \in contents[At]
    /\ Selection(At) = V
    /\ contents[At] # {}
    /\ \A c \in contents[At] : view[At].contents[c].hidden

(***************************************************************************)
(* C16. Guard asymmetry.  As claimed: a focus event on the trigger that is *)
(* already selected issues no change request; a key-down of Space or Enter *)
(* or a primary mouse-down without the control key on an enabled trigger   *)
(* (not marked as handled by the caller) issues a change request with the  *)
(* trigger's value, also when the trigger is already selected; and in each *)
(* of these cases the selection after the event is the trigger's value.    *)
(***************************************************************************)
FocusOnSelected == lastEvent.kind = "focus" /\ Before = V

ExplicitActivation ==
    /\ Enabled
    /\ ~lastEvent.defaultPrevented
    /\ \/ lastEvent.kind = "keydown" /\ ActivationKey
       \/ lastEvent.kind = "mousedown" /\ PrimaryUnmodified

GuardAsymmetry ==
    /\ FocusOnSelected => ~lastEvent.requested /\ notified = << >>
    /\ ExplicitActivation => lastEvent.requested /\ notified = << V >>

C16_GuardAsymmetryAsClaimed ==
    OnTrigger =>
        /\ GuardAsymmetry
        /\ FocusOnSelected \/ ExplicitActivation => Selection(At) = V

(***************************************************************************)
(* C16 as amended: the same, except that the selection after the event is  *)
(* the trigger's value in uncontrolled mode, and in controlled mode when   *)
(* the trigger was already selected; a change request of a trigger that is *)
(* not selected leaves the external value of a controlled instance as the  *)
(* selection.                                                              *)
(***************************************************************************)
C16_GuardAsymmetry ==
    OnTrigger =>
        /\ GuardAsymmetry
        /\ FocusOnSelected \/ ExplicitActivation =>
             /\ ~Controlled(At) \/ Before = V => Selection(At) = V
             /\ Controlled(At) => Selection(At) = Before

C16_Witness ==
    /\ lastEvent.kind = "keydown" /\ lastEvent.key = "Enter"
    /\ ExplicitActivation
    /\ Before = V
    /\ lastEvent.requested
    /\ notified = << V >>
    /\ Selection(At) = V

(***************************************************************************)
(* C17. No stale or interleaved updates: in every state the render of each *)
(* instance is the one derived from its current selection, so a change     *)
(* request is fully applied before the next handler runs; the isSelected   *)
(* guard of a focus handler is evaluated against the selection the earlier *)
(* events produced; and a trigger and the content of the same value never  *)
(* disagree on active or inactive.                                         *)
(***************************************************************************)
C17_NoStaleUpdates ==
    /\ \A i \in mounted :
         /\ view[i] = Render(i, baseId, valueProp, uncontrolled, activationMode,
                             disabled, contents)
         /\ view[i].value = Selection(i)
         /\ \A v \in Values :
              view[i].triggers[v].isSelected = (v = Selection(i))
         /\ \A v \in contents[i] :
              /\ view[i].triggers[v].isSelected = view[i].contents[v].isSelected
              /\ view[i].triggers[v].dataState = view[i].contents[v].dataState
    /\ lastEvent.kind = "focus" =>
         (lastEvent.requested <=>
              /\ Before # V
              /\ Enabled
              /\ activationMode[At] # "manual"
              /\ ~lastEvent.defaultPrevented)

C17_Witness ==
    /\ lastEvent.kind = "focus"
    /\ ~Controlled(At) /\ Enabled /\ ~lastEvent.defaultPrevented
    /\ activationMode[At] = "automatic"
    /\ Before = V /\ V # defaultValue[At]
    /\ ~lastEvent.requested
    /\ V \in contents[At]
    /\ view[At].triggers[V].dataState = "active"
    /\ view[At].contents[V].dataState = "active"

(***************************************************************************)
(* C18. Single writer and provenance: in uncontrolled mode the selection   *)
(* starts as defaultValue; a step changes it only when a path of an        *)
(* enabled trigger of that instance issued a change request, and then to   *)
(* that trigger's value; so the selection is always defaultValue or the    *)
(* value of an enabled trigger, and a present selection never becomes      *)
(* absent.                                                                 *)
(***************************************************************************)
SuccessfulActivation(i) ==
    /\ lastEvent'.kind \in TriggerKinds
    /\ lastEvent'.inst = i
    /\ lastEvent'.requested
    /\ lastEvent'.value \notin disabled[i]
    /\ lastEvent'.value \in Values
    /\ Selection(i)' = lastEvent'.value

C18_SingleWriter ==
    /\ \A i \in mounted : ~Controlled(i) => Selection(i) = defaultValue[i]
    /\ [][\A i \in mounted :
            ~Controlled(i) =>
                /\ Selection(i)' # Selection(i) => SuccessfulActivation(i)
                /\ Selection(i) # Undefined => Selection(i)' # Undefined]_vars
    /\ [](\A i \in mounted :
            ~Controlled(i) =>
                Selection(i) \in {defaultValue[i]} \cup (Values \ disabled[i]))

C18_Witness ==
    /\ lastEvent.kind = "mousedown" /\ lastEvent.requested
    /\ ~Controlled(At) /\ Enabled
    /\ Before \in Values /\ Before # V
    /\ V # defaultValue[At]
    /\ disabled[At] # {}
    /\ Selection(At) = V

(***************************************************************************)
(* C19. No identifier collisions: among the ids rendered by the mounted    *)
(* instances, and among the ids derived for values that themselves contain *)
(* "-trigger-", "-content-", "trigger-" or "content-", two ids are equal   *)
(* only if they are the id of the same kind, of the same instance and of   *)
(* the same value: within an instance distinct values give distinct        *)
(* trigger ids and distinct content ids and no trigger id is a content id, *)
(* and no id of one instance is an id of another instance.                 *)
(***************************************************************************)
TrickyValues ==
    {ValueAt(1) \o infix \o ValueAt(2) : infix \in {TriggerInfix, ContentInfix}}
        \cup {Tail(infix) \o ValueAt(2) : infix \in {TriggerInfix, ContentInfix}}

IdValues == Values \cup TrickyValues

IdKinds == {"trigger", "content"}

DerivedId(kind, i, v) ==
    IF kind = "trigger" THEN makeTriggerId(baseId[i], v) ELSE makeContentId(baseId[i], v)

====
